---- MODULE Spec2Model ----
(***************************************************************************)
(* Model of the rustchat relay (src/bin/server.rs) and of its length       *)
(* prefixed codec (src/common.rs).                                         *)
(*                                                                         *)
(* Every connection is served by one reader task (handle_client) and, once *)
(* registered, one writer task draining its bounded mpsc queue.  The       *)
(* shared ServerState sits behind one tokio Mutex.  An action of the model *)
(* is the code executed by one task between two suspension points; a       *)
(* statement of the form `state.lock().await.<map operation>` is atomic    *)
(* once the guard is free, and a guard that the code keeps alive across a  *)
(* `tx.send(..).await` is kept in the variable guard.                      *)
(***************************************************************************)
EXTENDS Integers, Sequences, FiniteSets, TLC

\* ---------------------------------------------------------------- bounds
NumConns == 2
\* external events of one run: frames, end-of-streams, socket failures, ctrl-c
MaxEvents == 3
\* scaled-down program constants (both are 100 in the source)
MAX_HISTORY_SIZE == 2
CHANNEL_CAP == 1

Conns == 1..NumConns
Names == {"A", "B"}
Contents == {"hi"}
Commands == {"/users", "/history", "/other"}
Editions == {2021, 2024}
NoConn == 0
NoName == ""

VARIABLES
    edition,            \* Rust edition of the build, 0 until the code path that depends on it runs
    clients,            \* ServerState.clients: name -> handle (connection) or NoConn
    broadcast_history,  \* ServerState.broadcast_history
    private_history,    \* ServerState.private_history (<<>> = no entry)
    guard,              \* task holding the Mutex guard across a suspension, NoConn if none
    pc,                 \* position of each handle_client task
    name,               \* `name` of handle_client
    cur,                \* the ClientMessage being handled
    reply,              \* the reply built by the handler (reply_msg)
    snap,               \* the cloned clients map being iterated: handles still to be sent to, in order
    queue,              \* mpsc channel contents, one per connection
    wpc,                \* writer task: "none", "run", "done"
    mpc,                \* position of main
    msnap,              \* main's cloned clients map: handles still to be sent to, in order
    budget,             \* peer events still to come (model bound)
    lastReg,            \* history: the connection that last registered each name
    exitCount,          \* history: Exit replies enqueued per connection
    shutSet,            \* history: handles in the Directory at the shutdown snapshot
    clearedSet,         \* history: handles removed by the shutdown clear
    glog,               \* history: every line appended to broadcast_history
    plog,               \* history: every line appended to private_history[n]
    seq,                \* history: results stream.next() has yielded to each handle_client
    qtag,               \* history: for each queued reply, the task that sent it and its seq then
    wrote,              \* history: per socket and sending task, the seq of the last reply written
    item,               \* codec run: the Message given to encode
    wire,               \* codec run: the bytes encode produced
    fed,                \* codec run: how many bytes of wire the socket has delivered
    src,                \* codec run: the read buffer of Framed (decode's src)
    out,                \* codec run: the results decode returned other than Ok(None)
    pending             \* codec run: Framed has to call decode (again)

logVars == <<lastReg, exitCount, shutSet, clearedSet, glog, plog>>
histVars == <<logVars, seq, qtag, wrote>>
srvVars == <<edition, clients, broadcast_history, private_history, guard, pc, name,
             cur, reply, snap, queue, wpc, mpc, msnap, budget, histVars>>
codecVars == <<item, wire, fed, src, out, pending>>
vars == <<srvVars, codecVars>>

\* ------------------------------------------------------------- envelopes
Register(n) == [type |-> "Register", name |-> n]
Broadcast(f, c) == [type |-> "Broadcast", from |-> f, content |-> c]
Private(f, t, c) == [type |-> "Private", from |-> f, to |-> t, content |-> c]
Command(f, cmd) == [type |-> "Command", from |-> f, command |-> cmd]
NoMsg == [type |-> "None"]

Registers == {Register(n) : n \in Names}
Broadcasts == {Broadcast(f, c) : f \in Names, c \in Contents}
Privates == {Private(p[1], p[2], c) : p \in Names \X Names, c \in Contents}
UsersCommands == {Command(f, "/users") : f \in Names}
HistoryCommands == {Command(f, "/history") : f \in Names}
UnknownCommands == {Command(f, cmd) : f \in Names, cmd \in Commands \ {"/users", "/history"}}
ClientMessage == Registers \cup Broadcasts \cup Privates
                 \cup UsersCommands \cup HistoryCommands \cup UnknownCommands

BroadcastMessage(f, c) == [type |-> "BroadcastMessage", from |-> f, content |-> c]
PrivateMessage(f, t, c) == [type |-> "PrivateMessage", from |-> f, to |-> t, content |-> c]
UserList(l, t) == [type |-> "UserList", content |-> l, to |-> t]
Error(c, t) == [type |-> "Error", content |-> c, to |-> t]
System(c) == [type |-> "System", content |-> c]
History(c, t) == [type |-> "History", content |-> c, to |-> t]
Exit == [type |-> "Exit"]

\* ---------------------------------------------------- formatted strings
BroadcastLine(f, c) == <<f, " broadcast: ", c>>
YouToLine(t, c) == <<"You -> ", t, c>>
ToYouLine(f, c) == <<f, " -> You: ", c>>
IssuedLine(cmd) == <<"You issued: ", cmd, "">>
GlobalHeader == <<"=== Broadcast History ===", "", "">>
PrivateHeader == <<"=== Your Private History ===", "", "">>
JoinText(n) == <<n, " join the chat">>
LeaveText(n) == <<n, " leave the chat">>
NoUserOnline == <<"No User Online", "">>
NotOnline == <<"Private object is not online or the name is incorrect ", "">>

\* ------------------------------------------------------------- helpers
\* the Senders held by a clients map (a connection registers once, so a
\* handle sits under one name at most)
Handles(cl) == {cl[n] : n \in Names} \ {NoConn}
OnlineNames(cl) == {n \in Names : cl[n] # NoConn}

Range(s) == {s[i] : i \in 1..Len(s)}

\* `for (_name, tx) in clients`: a HashMap is iterated in an arbitrary order,
\* fixed once the map is built; the orders a clone of cl can be walked in
Orders(cl) ==
    LET S == Handles(cl)
    IN {o \in [1..Cardinality(S) -> S] : \A i, j \in 1..Cardinality(S) : i # j => o[i] # o[j]}

\* push_back followed by `if len > MAX_HISTORY_SIZE { pop_front }`
PushBounded(h, line) ==
    LET h2 == Append(h, line)
    IN IF Len(h2) > MAX_HISTORY_SIZE THEN Tail(h2) ELSE h2

\* mutant of Insert: entry(name).or_insert(tx), the first handle is kept
InsertKeepsFirst(cl, n, c) == IF cl[n] # NoConn THEN cl ELSE [cl EXCEPT ![n] = c]

\* clients.insert(name, tx): a handle already under the name is replaced
Insert(cl, n, c) == [cl EXCEPT ![n] = c]

\* mutant of Remove: the entry is left in the map
RemoveNothing(cl, n) == cl

\* clients.remove(&name): the entry under the name goes, whoever inserted it
Remove(cl, n) == [cl EXCEPT ![n] = NoConn]

\* tx.send(m).await returns at once with Err when the Receiver is dropped,
\* and with Ok as soon as the channel has a free slot
CanSend(h) == wpc[h] = "done" \/ Len(queue[h]) < CHANNEL_CAP
Enqueue(q, h, m) == IF wpc[h] = "done" THEN q ELSE [q EXCEPT ![h] = Append(@, m)]

Running == mpc # "exited"

\* the relay before any connection
ServerInit ==
    /\ edition = 0
    /\ clients = [n \in Names |-> NoConn]
    /\ broadcast_history = <<>>
    /\ private_history = [n \in Names |-> <<>>]
    /\ guard = NoConn
    /\ pc = [c \in Conns |-> "none"]
    /\ name = [c \in Conns |-> NoName]
    /\ cur = [c \in Conns |-> NoMsg]
    /\ reply = [c \in Conns |-> NoMsg]
    /\ snap = [c \in Conns |-> <<>>]
    /\ queue = [c \in Conns |-> <<>>]
    /\ wpc = [c \in Conns |-> "none"]
    /\ mpc = "run"
    /\ msnap = <<>>
    /\ budget = MaxEvents
    /\ lastReg = [n \in Names |-> NoConn]
    /\ exitCount = [c \in Conns |-> 0]
    /\ shutSet = {}
    /\ clearedSet = {}
    /\ glog = <<>>
    /\ plog = [n \in Names |-> <<>>]
    /\ seq = [c \in Conns |-> 0]
    /\ qtag = [c \in Conns |-> <<>>]
    /\ wrote = [c \in Conns |-> [d \in Conns \cup {NoConn} |-> 0]]

\* no codec run
CodecIdle ==
    /\ item = NoMsg
    /\ wire = <<>>
    /\ fed = 0
    /\ src = <<>>
    /\ out = <<>>
    /\ pending = FALSE

Init == ServerInit /\ CodecIdle

\* ------------------------------------------------------------ main loop
\* listener.accept() arm of the select: spawn handle_client
Accept(c) ==
    /\ mpc = "run"
    /\ pc[c] = "none"
    /\ \A d \in Conns : d < c => pc[d] # "none"
    /\ pc' = [pc EXCEPT ![c] = "accepted"]
    /\ UNCHANGED codecVars
    /\ UNCHANGED <<edition, clients, broadcast_history, private_history, guard, name,
                   cur, reply, snap, queue, wpc, mpc, msnap, budget, histVars>>

\* ctrl_c arm: `let clients = state.lock().await.clients.clone();`
Shutdown ==
    /\ mpc = "run"
    /\ budget > 0
    /\ guard = NoConn
    /\ budget' = budget - 1
    /\ msnap' \in Orders(clients)
    /\ mpc' = IF Handles(clients) = {} THEN "s_clear" ELSE "s_fan"
    /\ shutSet' = Handles(clients)
    /\ UNCHANGED codecVars
    /\ UNCHANGED <<edition, clients, broadcast_history, private_history, guard, pc, name,
                   cur, reply, snap, queue, wpc,
                   lastReg, exitCount, clearedSet, glog, plog, seq, qtag, wrote>>

\* `for (_name, tx) in clients { let _ = tx.send(Exit).await; }`, one
\* iteration
ShutdownFan(h) ==
    /\ mpc = "s_fan"
    /\ msnap # <<>>
    /\ h = Head(msnap)
    /\ CanSend(h)
    /\ queue' = Enqueue(queue, h, Exit)
    /\ exitCount' = IF wpc[h] = "done" THEN exitCount ELSE [exitCount EXCEPT ![h] = @ + 1]
    /\ msnap' = Tail(msnap)
    /\ mpc' = IF Len(msnap) = 1 THEN "s_clear" ELSE "s_fan"
    /\ qtag' = Enqueue(qtag, h, <<NoConn, 0>>)
    /\ UNCHANGED codecVars
    /\ UNCHANGED <<edition, clients, broadcast_history, private_history, guard, pc, name,
                   cur, reply, snap, wpc, budget, lastReg, shutSet, clearedSet, glog, plog, seq, wrote>>

\* `state.lock().await.clients.clear();`
ShutdownClear ==
    /\ mpc = "s_clear"
    /\ guard = NoConn
    /\ clients' = [n \in Names |-> NoConn]
    /\ clearedSet' = Handles(clients)
    /\ mpc' = "s_sleep"
    /\ UNCHANGED codecVars
    /\ UNCHANGED <<edition, broadcast_history, private_history, guard, pc, name,
                   cur, reply, snap, queue, wpc, msnap, budget,
                   lastReg, exitCount, shutSet, glog, plog, seq, qtag, wrote>>

\* sleep(100ms) elapses, main returns and the runtime drops every task
ShutdownExit ==
    /\ mpc = "s_sleep"
    /\ mpc' = "exited"
    /\ UNCHANGED codecVars
    /\ UNCHANGED <<edition, clients, broadcast_history, private_history, guard, pc, name,
                   cur, reply, snap, queue, wpc, msnap, budget, histVars>>

\* ------------------------------------------------- handle_client: handshake
\* the first frame is Register { name }: mpsc::channel(100), then
\* `state.lock().await.clients.insert(name.clone(), tx);`
FirstRegister(c, n) ==
    /\ Running
    /\ pc[c] = "accepted"
    /\ budget > 0
    /\ guard = NoConn
    /\ budget' = budget - 1
    /\ name' = [name EXCEPT ![c] = n]
    /\ clients' = Insert(clients, n, c)
    /\ lastReg' = [lastReg EXCEPT ![n] = c]
    /\ pc' = [pc EXCEPT ![c] = "reg_snap"]
    /\ seq' = [seq EXCEPT ![c] = @ + 1]
    /\ UNCHANGED codecVars
    /\ UNCHANGED <<edition, broadcast_history, private_history, guard,
                   cur, reply, snap, queue, wpc, mpc, msnap,
                   exitCount, shutSet, clearedSet, glog, plog, qtag, wrote>>

\* mutant of FirstOther: the intent's `from` is taken for a registration
FirstOtherAdopted(c, m) ==
    /\ Running
    /\ pc[c] = "accepted"
    /\ budget > 0
    /\ m.type # "Register"
    /\ budget' = budget - 1
    /\ clients' = [clients EXCEPT ![m.from] = c]
    /\ pc' = [pc EXCEPT ![c] = "rejected"]
    /\ seq' = [seq EXCEPT ![c] = @ + 1]
    /\ UNCHANGED codecVars
    /\ UNCHANGED <<edition, broadcast_history, private_history, guard, name,
                   cur, reply, snap, queue, wpc, mpc, msnap, logVars, qtag, wrote>>

\* the first frame is an intent other than Register: the inner `if let`
\* does not match, handle_client returns Ok(()) and the socket is dropped
\* (pc "rejected": returned without having registered)
FirstOther(c, m) ==
    /\ Running
    /\ pc[c] = "accepted"
    /\ budget > 0
    /\ m.type # "Register"
    /\ budget' = budget - 1
    /\ pc' = [pc EXCEPT ![c] = "rejected"]
    /\ seq' = [seq EXCEPT ![c] = @ + 1]
    /\ UNCHANGED codecVars
    /\ UNCHANGED <<edition, clients, broadcast_history, private_history, guard, name,
                   cur, reply, snap, queue, wpc, mpc, msnap, logVars, qtag, wrote>>

\* framed.next() yields None or Some(Err(_)) before any intent
FirstEnd(c) ==
    /\ Running
    /\ pc[c] = "accepted"
    /\ budget > 0
    /\ budget' = budget - 1
    /\ pc' = [pc EXCEPT ![c] = "closed"]
    /\ seq' = [seq EXCEPT ![c] = @ + 1]
    /\ UNCHANGED codecVars
    /\ UNCHANGED <<edition, clients, broadcast_history, private_history, guard, name,
                   cur, reply, snap, queue, wpc, mpc, msnap, logVars, qtag, wrote>>

\* register(): `let clients = state.lock().await.clients.clone();`
\* (with an empty clone: the loop is skipped, the writer is spawned)
RegisterSnap(c) ==
    /\ Running
    /\ pc[c] = "reg_snap"
    /\ guard = NoConn
    /\ \E o \in Orders(clients) : snap' = [snap EXCEPT ![c] = o]
    /\ pc' = [pc EXCEPT ![c] = IF Handles(clients) = {} THEN "idle" ELSE "reg_fan"]
    /\ wpc' = [wpc EXCEPT ![c] = IF Handles(clients) = {} THEN "run" ELSE @]
    /\ UNCHANGED codecVars
    /\ UNCHANGED <<edition, clients, broadcast_history, private_history, guard, name,
                   cur, reply, queue, mpc, msnap, budget, histVars>>

\* register(): one iteration of `for (_name, tx) in clients { tx.send(join).await }`;
\* after the last one: framed.split(), tokio::spawn(writer), enter the read loop
RegisterFan(c, h) ==
    /\ Running
    /\ pc[c] = "reg_fan"
    /\ snap[c] # <<>>
    /\ h = Head(snap[c])
    /\ CanSend(h)
    /\ queue' = Enqueue(queue, h, System(JoinText(name[c])))
    /\ snap' = [snap EXCEPT ![c] = Tail(@)]
    /\ pc' = [pc EXCEPT ![c] = IF Len(snap[c]) = 1 THEN "idle" ELSE @]
    /\ wpc' = [wpc EXCEPT ![c] = IF Len(snap[c]) = 1 THEN "run" ELSE @]
    /\ qtag' = Enqueue(qtag, h, <<c, seq[c]>>)
    /\ UNCHANGED codecVars
    /\ UNCHANGED <<edition, clients, broadcast_history, private_history, guard, name,
                   cur, reply, mpc, msnap, budget, logVars, seq, wrote>>

\* --------------------------------------------------- handle_client: read loop
\* `while let Some(Ok(Message::Clientmsg(msg))) = stream.next().await`: each
\* Recv* action is the arrival of one intent together with the handler's code
\* up to its next suspension point.

\* Register inside the loop: the `_ => ()` arm
RecvRegister(c, m) ==
    /\ Running
    /\ pc[c] = "idle"
    /\ budget > 0
    /\ m \in Registers
    /\ budget' = budget - 1
    /\ seq' = [seq EXCEPT ![c] = @ + 1]
    /\ UNCHANGED codecVars
    /\ UNCHANGED <<edition, clients, broadcast_history, private_history, guard, pc, name,
                   cur, reply, snap, queue, wpc, mpc, msnap, logVars, qtag, wrote>>

\* ------------------------------------------------------------- broadcast
\* the block `{ let mut st = state.lock().await; push_back; pop_front }`,
\* then reply_msg is built
RecvBroadcast(c, m) ==
    /\ Running
    /\ pc[c] = "idle"
    /\ budget > 0
    /\ m \in Broadcasts
    /\ guard = NoConn
    /\ budget' = budget - 1
    /\ broadcast_history' = PushBounded(broadcast_history, BroadcastLine(m.from, m.content))
    /\ glog' = Append(glog, BroadcastLine(m.from, m.content))
    /\ reply' = [reply EXCEPT ![c] = BroadcastMessage(m.from, m.content)]
    /\ pc' = [pc EXCEPT ![c] = "b_snap"]
    /\ seq' = [seq EXCEPT ![c] = @ + 1]
    /\ UNCHANGED codecVars
    /\ UNCHANGED <<edition, clients, private_history, guard, name,
                   cur, snap, queue, wpc, mpc, msnap,
                   lastReg, exitCount, shutSet, clearedSet, plog, qtag, wrote>>

\* mutant of BroadcastSnap: the fan-out is left to a spawned task and the
\* handler returns at once
BroadcastSnapDetached(c) ==
    /\ Running
    /\ pc[c] = "b_snap"
    /\ guard = NoConn
    /\ \E o \in Orders(clients) : snap' = [snap EXCEPT ![c] = o]
    /\ pc' = [pc EXCEPT ![c] = "idle"]
    /\ UNCHANGED codecVars
    /\ UNCHANGED <<edition, clients, broadcast_history, private_history, guard, name,
                   cur, reply, queue, wpc, mpc, msnap, budget, histVars>>

\* `let clients = state.lock().await.clients.clone();`
BroadcastSnap(c) ==
    /\ Running
    /\ pc[c] = "b_snap"
    /\ guard = NoConn
    /\ \E o \in Orders(clients) : snap' = [snap EXCEPT ![c] = o]
    /\ pc' = [pc EXCEPT ![c] = IF Handles(clients) = {} THEN "idle" ELSE "b_fan"]
    /\ reply' = [reply EXCEPT ![c] = IF Handles(clients) = {} THEN NoMsg ELSE @]
    /\ UNCHANGED codecVars
    /\ UNCHANGED <<edition, clients, broadcast_history, private_history, guard, name,
                   cur, queue, wpc, mpc, msnap, budget, histVars>>

\* one iteration of `for (_name, tx) in clients { let _ = tx.send(reply_msg.clone()).await; }`
BroadcastFan(c, h) ==
    /\ Running
    /\ pc[c] = "b_fan"
    /\ snap[c] # <<>>
    /\ h = Head(snap[c])
    /\ CanSend(h)
    /\ queue' = Enqueue(queue, h, reply[c])
    /\ snap' = [snap EXCEPT ![c] = Tail(@)]
    /\ pc' = [pc EXCEPT ![c] = IF Len(snap[c]) = 1 THEN "idle" ELSE @]
    /\ reply' = [reply EXCEPT ![c] = IF Len(snap[c]) = 1 THEN NoMsg ELSE @]
    /\ qtag' = Enqueue(qtag, h, <<c, seq[c]>>)
    /\ UNCHANGED codecVars
    /\ UNCHANGED <<edition, clients, broadcast_history, private_history, guard, name,
                   cur, wpc, mpc, msnap, budget, logVars, seq, wrote>>

\* -------------------------------------------------------------- dispatch
\* mutant of DispatchHistory: the recipient's line is not recorded
DispatchHistorySenderOnly(ph, m) ==
    [ph EXCEPT ![m.from] = PushBounded(@, YouToLine(m.to, m.content))]

\* private_history after the block that records a Private intent
DispatchHistory(ph, m) ==
    LET h1 == [ph EXCEPT ![m.from] = PushBounded(@, YouToLine(m.to, m.content))]
    IN [h1 EXCEPT ![m.to] = PushBounded(@, ToYouLine(m.from, m.content))]

\* the block appending to private_history[from] and private_history[to];
\* then reply_msg is built
RecvPrivate(c, m) ==
    /\ Running
    /\ pc[c] = "idle"
    /\ budget > 0
    /\ m \in Privates
    /\ guard = NoConn
    /\ budget' = budget - 1
    /\ private_history' = DispatchHistory(private_history, m)
    /\ plog' = [[plog EXCEPT ![m.from] = Append(@, YouToLine(m.to, m.content))]
                    EXCEPT ![m.to] = Append(@, ToYouLine(m.from, m.content))]
    /\ cur' = [cur EXCEPT ![c] = m]
    /\ reply' = [reply EXCEPT ![c] = PrivateMessage(m.from, m.to, m.content)]
    /\ pc' = [pc EXCEPT ![c] = "d_get"]
    /\ seq' = [seq EXCEPT ![c] = @ + 1]
    /\ UNCHANGED codecVars
    /\ UNCHANGED <<edition, clients, broadcast_history, guard, name,
                   snap, queue, wpc, mpc, msnap,
                   lastReg, exitCount, shutSet, clearedSet, glog, qtag, wrote>>

\* the guard after `if let Some(tx) = state.lock().await.clients.get(to)` took
\* its else-block: the guard is a temporary of the scrutinee, dropped at the
\* end of the whole if-let in editions up to 2021 and before the else-block
\* from edition 2024 on
ElseGuard(e, c) == IF e = 2021 THEN c ELSE NoConn

\* `if let Some(tx) = state.lock().await.clients.get(to)`
DispatchGet(c) ==
    /\ Running
    /\ pc[c] = "d_get"
    /\ guard = NoConn
    /\ IF clients[cur[c].to] # NoConn
       THEN /\ guard' = c
            /\ pc' = [pc EXCEPT ![c] = "d_send"]
            /\ edition' = edition
       ELSE /\ \E e \in (IF edition = 0 THEN Editions ELSE {edition}) :
                   /\ edition' = e
                   /\ guard' = ElseGuard(e, c)
            /\ pc' = [pc EXCEPT ![c] = "d_else"]
    /\ UNCHANGED codecVars
    /\ UNCHANGED <<clients, broadcast_history, private_history, name,
                   cur, reply, snap, queue, wpc, mpc, msnap, budget, histVars>>

\* `let _ = tx.send(reply_msg.clone()).await;` with the guard held
DispatchSend(c) ==
    /\ Running
    /\ pc[c] = "d_send"
    /\ CanSend(clients[cur[c].to])
    /\ queue' = Enqueue(queue, clients[cur[c].to], reply[c])
    /\ guard' = NoConn
    /\ pc' = [pc EXCEPT ![c] = "idle"]
    /\ cur' = [cur EXCEPT ![c] = NoMsg]
    /\ reply' = [reply EXCEPT ![c] = NoMsg]
    /\ qtag' = Enqueue(qtag, clients[cur[c].to], <<c, seq[c]>>)
    /\ UNCHANGED codecVars
    /\ UNCHANGED <<edition, clients, broadcast_history, private_history, name,
                   snap, wpc, mpc, msnap, budget, logVars, seq, wrote>>

\* else-block: `if let Some(tx) = state.lock().await.clients.get(from)`; the
\* lock is requested whoever holds the guard, this task included
DispatchElse(c) ==
    /\ Running
    /\ pc[c] = "d_else"
    /\ guard = NoConn
    /\ IF clients[cur[c].from] # NoConn
       THEN /\ guard' = c
            /\ pc' = [pc EXCEPT ![c] = "d_err"]
            /\ reply' = [reply EXCEPT ![c] = Error(NotOnline, cur[c].from)]
            /\ cur' = cur
       ELSE /\ guard' = NoConn
            /\ pc' = [pc EXCEPT ![c] = "idle"]
            /\ reply' = [reply EXCEPT ![c] = NoMsg]
            /\ cur' = [cur EXCEPT ![c] = NoMsg]
    /\ UNCHANGED codecVars
    /\ UNCHANGED <<edition, clients, broadcast_history, private_history, name,
                   snap, queue, wpc, mpc, msnap, budget, histVars>>

\* `let _ = tx.send(private_error_msg).await;` with the guard held
DispatchErr(c) ==
    /\ Running
    /\ pc[c] = "d_err"
    /\ CanSend(clients[cur[c].from])
    /\ queue' = Enqueue(queue, clients[cur[c].from], reply[c])
    /\ guard' = NoConn
    /\ pc' = [pc EXCEPT ![c] = "idle"]
    /\ cur' = [cur EXCEPT ![c] = NoMsg]
    /\ reply' = [reply EXCEPT ![c] = NoMsg]
    /\ qtag' = Enqueue(qtag, clients[cur[c].from], <<c, seq[c]>>)
    /\ UNCHANGED codecVars
    /\ UNCHANGED <<edition, clients, broadcast_history, private_history, name,
                   snap, wpc, mpc, msnap, budget, logVars, seq, wrote>>

\* --------------------------------------------------------------- command
\* "/users": the block appending "You issued: /users"
RecvUsers(c, m) ==
    /\ Running
    /\ pc[c] = "idle"
    /\ budget > 0
    /\ m \in UsersCommands
    /\ guard = NoConn
    /\ budget' = budget - 1
    /\ private_history' = [private_history EXCEPT ![m.from] = PushBounded(@, IssuedLine(m.command))]
    /\ plog' = [plog EXCEPT ![m.from] = Append(@, IssuedLine(m.command))]
    /\ cur' = [cur EXCEPT ![c] = m]
    /\ pc' = [pc EXCEPT ![c] = "cu_snap"]
    /\ seq' = [seq EXCEPT ![c] = @ + 1]
    /\ UNCHANGED codecVars
    /\ UNCHANGED <<edition, clients, broadcast_history, guard, name,
                   reply, snap, queue, wpc, mpc, msnap,
                   lastReg, exitCount, shutSet, clearedSet, glog, qtag, wrote>>

\* "/users": reply_msg built from the names of a clients map
UsersReply(cl, from) ==
    IF OnlineNames(cl) = {} THEN System(NoUserOnline) ELSE UserList(OnlineNames(cl), from)

\* "/users": `let clients = state.lock().await.clients.clone();`, collect
\* the names, build reply_msg
UsersSnap(c) ==
    /\ Running
    /\ pc[c] = "cu_snap"
    /\ guard = NoConn
    /\ reply' = [reply EXCEPT ![c] = UsersReply(clients, cur[c].from)]
    /\ pc' = [pc EXCEPT ![c] = "cu_get"]
    /\ UNCHANGED codecVars
    /\ UNCHANGED <<edition, clients, broadcast_history, private_history, guard, name,
                   cur, snap, queue, wpc, mpc, msnap, budget, histVars>>

\* "/users": `if let Some(tx) = state.lock().await.clients.get(from)`
UsersGet(c) ==
    /\ Running
    /\ pc[c] = "cu_get"
    /\ guard = NoConn
    /\ IF clients[cur[c].from] # NoConn
       THEN /\ guard' = c
            /\ pc' = [pc EXCEPT ![c] = "c_send"]
            /\ UNCHANGED <<cur, reply>>
       ELSE /\ guard' = NoConn
            /\ pc' = [pc EXCEPT ![c] = "idle"]
            /\ reply' = [reply EXCEPT ![c] = NoMsg]
            /\ cur' = [cur EXCEPT ![c] = NoMsg]
    /\ UNCHANGED codecVars
    /\ UNCHANGED <<edition, clients, broadcast_history, private_history, name,
                   snap, queue, wpc, mpc, msnap, budget, histVars>>

\* the text of the "/history" reply: lines.join("\n"), kept as its lines
HistoryText(bh, ph) == <<GlobalHeader>> \o bh \o <<PrivateHeader>> \o ph

\* mutant of HistoryPush: the request is not recorded before the read
HistoryPushSkipped(h, cmd) == h

\* private_history[from] after "/history" recorded the request: push_back
\* without pop_front
HistoryPush(h, cmd) == Append(h, IssuedLine(cmd))

\* "/history": `let mut st = state.lock().await;` record the request, collect
\* the lines, st.clients.get(from); st lives to the end of the block
RecvHistory(c, m) ==
    /\ Running
    /\ pc[c] = "idle"
    /\ budget > 0
    /\ m \in HistoryCommands
    /\ guard = NoConn
    /\ budget' = budget - 1
    /\ private_history' = [private_history EXCEPT ![m.from] = HistoryPush(@, m.command)]
    /\ plog' = [plog EXCEPT ![m.from] = Append(@, IssuedLine(m.command))]
    /\ IF clients[m.from] # NoConn
       THEN /\ guard' = c
            /\ pc' = [pc EXCEPT ![c] = "c_send"]
            /\ reply' = [reply EXCEPT ![c] =
                   History(HistoryText(broadcast_history, private_history'[m.from]), m.from)]
            /\ cur' = [cur EXCEPT ![c] = m]
       ELSE /\ guard' = NoConn
            /\ UNCHANGED <<pc, reply, cur>>
    /\ seq' = [seq EXCEPT ![c] = @ + 1]
    /\ UNCHANGED codecVars
    /\ UNCHANGED <<edition, clients, broadcast_history, name,
                   snap, queue, wpc, mpc, msnap,
                   lastReg, exitCount, shutSet, clearedSet, glog, qtag, wrote>>

\* any other command: `if let Some(tx) = state.lock().await.clients.get(from)`
RecvUnknown(c, m) ==
    /\ Running
    /\ pc[c] = "idle"
    /\ budget > 0
    /\ m \in UnknownCommands
    /\ guard = NoConn
    /\ budget' = budget - 1
    /\ IF clients[m.from] # NoConn
       THEN /\ guard' = c
            /\ pc' = [pc EXCEPT ![c] = "c_send"]
            /\ reply' = [reply EXCEPT ![c] = Error(NoUserOnline, m.from)]
            /\ cur' = [cur EXCEPT ![c] = m]
       ELSE /\ guard' = NoConn
            /\ UNCHANGED <<pc, reply, cur>>
    /\ seq' = [seq EXCEPT ![c] = @ + 1]
    /\ UNCHANGED codecVars
    /\ UNCHANGED <<edition, clients, broadcast_history, private_history, name,
                   snap, queue, wpc, mpc, msnap, logVars, qtag, wrote>>

\* `let _ = tx.send(..).await;` of the three command branches, guard held
CommandSend(c) ==
    /\ Running
    /\ pc[c] = "c_send"
    /\ CanSend(clients[cur[c].from])
    /\ queue' = Enqueue(queue, clients[cur[c].from], reply[c])
    /\ guard' = NoConn
    /\ pc' = [pc EXCEPT ![c] = "idle"]
    /\ cur' = [cur EXCEPT ![c] = NoMsg]
    /\ reply' = [reply EXCEPT ![c] = NoMsg]
    /\ qtag' = Enqueue(qtag, clients[cur[c].from], <<c, seq[c]>>)
    /\ UNCHANGED codecVars
    /\ UNCHANGED <<edition, clients, broadcast_history, private_history, name,
                   snap, wpc, mpc, msnap, budget, logVars, seq, wrote>>

\* -------------------------------------------------------------- teardown
\* the while-let pattern fails (end of stream, decode error or a Servermsg):
\* `state.lock().await.clients.remove(&name);`
RecvEnd(c) ==
    /\ Running
    /\ pc[c] = "idle"
    /\ budget > 0
    /\ guard = NoConn
    /\ budget' = budget - 1
    /\ clients' = Remove(clients, name[c])
    /\ pc' = [pc EXCEPT ![c] = "t_lock"]
    /\ seq' = [seq EXCEPT ![c] = @ + 1]
    /\ UNCHANGED codecVars
    /\ UNCHANGED <<edition, broadcast_history, private_history, guard, name,
                   cur, reply, snap, queue, wpc, mpc, msnap, logVars, qtag, wrote>>

\* `for (_name, tx) in state.lock().await.clients.clone()`: the guard is a
\* temporary of the iterator expression and lives until the loop ends (with
\* an empty clone the loop ends at once and handle_client returns)
TeardownLock(c) ==
    /\ Running
    /\ pc[c] = "t_lock"
    /\ guard = NoConn
    /\ guard' = IF Handles(clients) = {} THEN NoConn ELSE c
    /\ \E o \in Orders(clients) : snap' = [snap EXCEPT ![c] = o]
    /\ pc' = [pc EXCEPT ![c] = IF Handles(clients) = {} THEN "closed" ELSE "t_fan"]
    /\ UNCHANGED codecVars
    /\ UNCHANGED <<edition, clients, broadcast_history, private_history, name,
                   cur, reply, queue, wpc, mpc, msnap, budget, histVars>>

\* one iteration `let _ = tx.send(leave_msg.clone()).await;`; after the last
\* one the guard is dropped and handle_client returns Ok(())
TeardownFan(c, h) ==
    /\ Running
    /\ pc[c] = "t_fan"
    /\ snap[c] # <<>>
    /\ h = Head(snap[c])
    /\ CanSend(h)
    /\ queue' = Enqueue(queue, h, System(LeaveText(name[c])))
    /\ snap' = [snap EXCEPT ![c] = Tail(@)]
    /\ pc' = [pc EXCEPT ![c] = IF Len(snap[c]) = 1 THEN "closed" ELSE @]
    /\ guard' = IF Len(snap[c]) = 1 THEN NoConn ELSE guard
    /\ qtag' = Enqueue(qtag, h, <<c, seq[c]>>)
    /\ UNCHANGED codecVars
    /\ UNCHANGED <<edition, clients, broadcast_history, private_history, name,
                   cur, reply, wpc, mpc, msnap, budget, logVars, seq, wrote>>

\* ----------------------------------------------------------- writer task
\* mutant of SenderAlive: handle_client keeps a clone of tx until it returns
SenderAliveUntilReturn(c) ==
    \/ pc[c] # "closed"
    \/ c \in Handles(clients)
    \/ \E d \in Conns : c \in Range(snap[d])
    \/ c \in Range(msnap)

\* a Sender of c's channel is alive: the Directory entry or a clone in a
\* cloned map that is still being iterated
SenderAlive(c) ==
    \/ c \in Handles(clients)
    \/ \E d \in Conns : c \in Range(snap[d])
    \/ c \in Range(msnap)

\* `while let Some(msg) = rx.recv().await { if sink.send(msg).await.is_err() { break } }`
\* with a successful socket write
WriterSend(c) ==
    /\ Running
    /\ wpc[c] = "run"
    /\ queue[c] # <<>>
    /\ queue' = [queue EXCEPT ![c] = Tail(@)]
    /\ qtag' = [qtag EXCEPT ![c] = Tail(@)]
    /\ wrote' = [wrote EXCEPT ![c][Head(qtag[c])[1]] = Head(qtag[c])[2]]
    /\ UNCHANGED codecVars
    /\ UNCHANGED <<edition, clients, broadcast_history, private_history, guard, pc, name,
                   cur, reply, snap, wpc, mpc, msnap, budget, logVars, seq>>

\* sink.send fails: break; rx is dropped, and with it whatever is still queued
WriterFail(c) ==
    /\ Running
    /\ wpc[c] = "run"
    /\ queue[c] # <<>>
    /\ budget > 0
    /\ budget' = budget - 1
    /\ queue' = [queue EXCEPT ![c] = <<>>]
    /\ wpc' = [wpc EXCEPT ![c] = "done"]
    /\ qtag' = [qtag EXCEPT ![c] = <<>>]
    /\ UNCHANGED codecVars
    /\ UNCHANGED <<edition, clients, broadcast_history, private_history, guard, pc, name,
                   cur, reply, snap, mpc, msnap, logVars, seq, wrote>>

\* rx.recv() returns None: every Sender is dropped and the queue is empty
WriterExit(c) ==
    /\ Running
    /\ wpc[c] = "run"
    /\ queue[c] = <<>>
    /\ ~SenderAlive(c)
    /\ wpc' = [wpc EXCEPT ![c] = "done"]
    /\ UNCHANGED codecVars
    /\ UNCHANGED <<edition, clients, broadcast_history, private_history, guard, pc, name,
                   cur, reply, snap, queue, mpc, msnap, budget, histVars>>

\* ---------------------------------------------------------- specification
Handshake(c) ==
    \/ \E n \in Names : FirstRegister(c, n)
    \/ \E m \in ClientMessage : FirstOther(c, m)
    \/ FirstEnd(c)
    \/ RegisterSnap(c)
    \/ \E h \in Conns : RegisterFan(c, h)

\* stream.next() yields the intent m and the match calls its handler
ReadFrame(c, m) ==
    \/ RecvRegister(c, m)
    \/ RecvBroadcast(c, m)
    \/ RecvPrivate(c, m)
    \/ RecvUsers(c, m)
    \/ RecvHistory(c, m)
    \/ RecvUnknown(c, m)

\* the handler called by the read loop goes on
HandlerStep(c) ==
    \/ BroadcastSnap(c)
    \/ \E h \in Conns : BroadcastFan(c, h)
    \/ DispatchGet(c)
    \/ DispatchSend(c)
    \/ DispatchElse(c)
    \/ DispatchErr(c)
    \/ UsersSnap(c)
    \/ UsersGet(c)
    \/ CommandSend(c)

\* the peer may send any intent
ReadLoop(c) == (\E m \in ClientMessage : ReadFrame(c, m)) \/ HandlerStep(c)

\* the intents of a peer that puts the name it registered into `from`, as
\* the repository's client does (src/bin/client.rs builds every intent with
\* `from: name.clone()`)
ClientFrames(c) == {m \in ClientMessage : m.type # "Register" => m.from = name[c]}

\* the read loop with such a peer
ClientReadLoop(c) == (\E m \in ClientFrames(c) : ReadFrame(c, m)) \/ HandlerStep(c)

Teardown(c) ==
    \/ RecvEnd(c)
    \/ TeardownLock(c)
    \/ \E h \in Conns : TeardownFan(c, h)

Writer(c) == WriterSend(c) \/ WriterFail(c) \/ WriterExit(c)

Main ==
    \/ \E c \in Conns : Accept(c)
    \/ Shutdown
    \/ \E h \in Conns : ShutdownFan(h)
    \/ ShutdownClear
    \/ ShutdownExit

Next ==
    \/ Main
    \/ \E c \in Conns : Handshake(c) \/ ReadLoop(c) \/ Teardown(c)
    \/ \E c \in Conns : Writer(c)

Spec == Init /\ [][Next]_vars

\* The relay with peers that send their own name.
ClientNext ==
    \/ Main
    \/ \E c \in Conns : Handshake(c) \/ ClientReadLoop(c) \/ Teardown(c)
    \/ \E c \in Conns : Writer(c)

\* Scheduling: the runtime runs every task that is ready, so a step of a
\* task that stays possible is taken; frames, end-of-streams, socket failures
\* and ctrl-c are up to the environment.  Peers keep reading their sockets.
TaskStep(c) ==
    \/ RegisterSnap(c)
    \/ \E h \in Conns : RegisterFan(c, h)
    \/ BroadcastSnap(c)
    \/ \E h \in Conns : BroadcastFan(c, h)
    \/ DispatchGet(c)
    \/ DispatchSend(c)
    \/ DispatchElse(c)
    \/ DispatchErr(c)
    \/ UsersSnap(c)
    \/ UsersGet(c)
    \/ CommandSend(c)
    \/ TeardownLock(c)
    \/ \E h \in Conns : TeardownFan(c, h)

MainStep == (\E h \in Conns : ShutdownFan(h)) \/ ShutdownClear \/ ShutdownExit

FairSpec ==
    /\ Init /\ [][ClientNext]_vars
    /\ \A c \in Conns : WF_vars(TaskStep(c))
    /\ \A c \in Conns : WF_vars(WriterSend(c) \/ WriterExit(c))
    /\ WF_vars(MainStep)

TypeOK ==
    /\ guard \in Conns \cup {NoConn}
    /\ \A c \in Conns : Len(queue[c]) <= CHANNEL_CAP
    /\ budget \in 0..MaxEvents
    /\ edition \in Editions \cup {0}

\* ================================================================= codec
\* A text is a sequence of bytes; the texts the codec run draws from: "A"
\* and a text made of a quote and a backslash (both escaped by JSON).
MaxUsers == 2
Texts == {<<65>>, <<34, 92>>}
TextLists == UNION {[1..k -> Texts] : k \in 0..MaxUsers}

Envelopes ==
    {Register(n) : n \in Texts}
    \cup {Broadcast(f, c) : f \in Texts, c \in Texts}
    \cup {Private(f, t, c) : f \in Texts, t \in Texts, c \in Texts}
    \cup {Command(f, c) : f \in Texts, c \in Texts}
    \cup {BroadcastMessage(f, c) : f \in Texts, c \in Texts}
    \cup {PrivateMessage(f, t, c) : f \in Texts, t \in Texts, c \in Texts}
    \cup {UserList(l, t) : l \in TextLists, t \in Texts}
    \cup {Error(c, t) : c \in Texts, t \in Texts}
    \cup {System(c) : c \in Texts}
    \cup {History(c, t) : c \in Texts, t \in Texts}
    \cup {Exit}

\* serde_json::to_vec of the derived Serialize: externally tagged enums,
\* fields in declaration order, strings quoted with `"` and `\` escaped
K_Clientmsg == <<67, 108, 105, 101, 110, 116, 109, 115, 103>>
K_Servermsg == <<83, 101, 114, 118, 101, 114, 109, 115, 103>>
K_Register == <<82, 101, 103, 105, 115, 116, 101, 114>>
K_Broadcast == <<66, 114, 111, 97, 100, 99, 97, 115, 116>>
K_Private == <<80, 114, 105, 118, 97, 116, 101>>
K_Command == <<67, 111, 109, 109, 97, 110, 100>>
K_BroadcastMessage == <<66, 114, 111, 97, 100, 99, 97, 115, 116, 77, 101, 115, 115, 97, 103, 101>>
K_PrivateMessage == <<80, 114, 105, 118, 97, 116, 101, 77, 101, 115, 115, 97, 103, 101>>
K_UserList == <<85, 115, 101, 114, 76, 105, 115, 116>>
K_Error == <<69, 114, 114, 111, 114>>
K_System == <<83, 121, 115, 116, 101, 109>>
K_History == <<72, 105, 115, 116, 111, 114, 121>>
K_Exit == <<69, 120, 105, 116>>
K_name == <<110, 97, 109, 101>>
K_from == <<102, 114, 111, 109>>
K_to == <<116, 111>>
K_content == <<99, 111, 110, 116, 101, 110, 116>>
K_command == <<99, 111, 109, 109, 97, 110, 100>>

RECURSIVE Escape(_)
Escape(t) ==
    IF t = <<>> THEN <<>>
    ELSE (IF Head(t) \in {34, 92} THEN <<92, Head(t)>> ELSE <<Head(t)>>) \o Escape(Tail(t))

JsonString(t) == <<34>> \o Escape(t) \o <<34>>
JsonField(k, v) == JsonString(k) \o <<58>> \o v
JsonObject1(f1) == <<123>> \o f1 \o <<125>>
JsonObject2(f1, f2) == <<123>> \o f1 \o <<44>> \o f2 \o <<125>>
JsonObject3(f1, f2, f3) == <<123>> \o f1 \o <<44>> \o f2 \o <<44>> \o f3 \o <<125>>

RECURSIVE JsonItems(_)
JsonItems(l) ==
    IF l = <<>> THEN <<>>
    ELSE IF Len(l) = 1 THEN JsonString(l[1])
    ELSE JsonString(l[1]) \o <<44>> \o JsonItems(Tail(l))

JsonArray(l) == <<91>> \o JsonItems(l) \o <<93>>

JsonVariant(tag, kind, body) ==
    JsonObject1(JsonField(tag, JsonObject1(JsonField(kind, body))))

to_vec(m) ==
    CASE m.type = "Register" ->
            JsonVariant(K_Clientmsg, K_Register,
                JsonObject1(JsonField(K_name, JsonString(m.name))))
      [] m.type = "Broadcast" ->
            JsonVariant(K_Clientmsg, K_Broadcast,
                JsonObject2(JsonField(K_from, JsonString(m.from)),
                            JsonField(K_content, JsonString(m.content))))
      [] m.type = "Private" ->
            JsonVariant(K_Clientmsg, K_Private,
                JsonObject3(JsonField(K_from, JsonString(m.from)),
                            JsonField(K_to, JsonString(m.to)),
                            JsonField(K_content, JsonString(m.content))))
      [] m.type = "Command" ->
            JsonVariant(K_Clientmsg, K_Command,
                JsonObject2(JsonField(K_from, JsonString(m.from)),
                            JsonField(K_command, JsonString(m.command))))
      [] m.type = "BroadcastMessage" ->
            JsonVariant(K_Servermsg, K_BroadcastMessage,
                JsonObject2(JsonField(K_from, JsonString(m.from)),
                            JsonField(K_content, JsonString(m.content))))
      [] m.type = "PrivateMessage" ->
            JsonVariant(K_Servermsg, K_PrivateMessage,
                JsonObject3(JsonField(K_from, JsonString(m.from)),
                            JsonField(K_to, JsonString(m.to)),
                            JsonField(K_content, JsonString(m.content))))
      [] m.type = "UserList" ->
            JsonVariant(K_Servermsg, K_UserList,
                JsonObject2(JsonField(K_content, JsonArray(m.content)),
                            JsonField(K_to, JsonString(m.to))))
      [] m.type = "Error" ->
            JsonVariant(K_Servermsg, K_Error,
                JsonObject2(JsonField(K_content, JsonString(m.content)),
                            JsonField(K_to, JsonString(m.to))))
      [] m.type = "System" ->
            JsonVariant(K_Servermsg, K_System,
                JsonObject1(JsonField(K_content, JsonString(m.content))))
      [] m.type = "History" ->
            JsonVariant(K_Servermsg, K_History,
                JsonObject2(JsonField(K_content, JsonString(m.content)),
                            JsonField(K_to, JsonString(m.to))))
      [] m.type = "Exit" ->
            JsonObject1(JsonField(K_Servermsg, JsonString(K_Exit)))

\* serde_json::from_slice::<Message>: the Message whose serialization the
\* bytes are, an error for bytes that are no serialization of a Message
ParseError == [type |-> "ParseError"]
from_slice(data) ==
    IF \E m \in Envelopes : to_vec(m) = data
    THEN CHOOSE m \in Envelopes : to_vec(m) = data
    ELSE ParseError

\* put_u32: four bytes, big-endian
put_u32(n) == <<(n \div 16777216) % 256, (n \div 65536) % 256, (n \div 256) % 256, n % 256>>
\* u32::from_be_bytes([src[0], src[1], src[2], src[3]])
from_be_bytes(s) == s[1] * 16777216 + s[2] * 65536 + s[3] * 256 + s[4]

\* LengthCodec::encode: dst followed by the length prefix and the payload
\* (`data.len() as u32` is data.len() for a payload below 4 GiB)
encode(m, dst) ==
    LET data == to_vec(m)
    IN dst \o put_u32(Len(data)) \o data

\* mutant of decode: the header is not skipped (no src.advance(4))
decodeNoAdvance(s) ==
    IF Len(s) < 4 THEN [res |-> "None", msg |-> NoMsg, src |-> s]
    ELSE LET len == from_be_bytes(s)
         IN IF Len(s) < 4 + len THEN [res |-> "None", msg |-> NoMsg, src |-> s]
            ELSE LET data == SubSeq(s, 1, len)
                     rest == SubSeq(s, len + 1, Len(s))
                     m == from_slice(data)
                 IN IF m = ParseError
                    THEN [res |-> "Err", msg |-> NoMsg, src |-> rest]
                    ELSE [res |-> "Some", msg |-> m, src |-> rest]

\* LengthCodec::decode: the result and what is left of src
decode(s) ==
    IF Len(s) < 4 THEN [res |-> "None", msg |-> NoMsg, src |-> s]
    ELSE LET len == from_be_bytes(s)
         IN IF Len(s) < 4 + len THEN [res |-> "None", msg |-> NoMsg, src |-> s]
            ELSE LET data == SubSeq(s, 5, 4 + len)
                     rest == SubSeq(s, 5 + len, Len(s))
                     m == from_slice(data)
                 IN IF m = ParseError
                    THEN [res |-> "Err", msg |-> NoMsg, src |-> rest]
                    ELSE [res |-> "Some", msg |-> m, src |-> rest]

\* one Message is encoded and put on the wire
CodecInit ==
    /\ ServerInit
    /\ item \in Envelopes
    /\ wire = encode(item, <<>>)
    /\ fed = 0
    /\ src = <<>>
    /\ out = <<>>
    /\ pending = FALSE

\* Framed reads the next k bytes of the stream into its buffer
Read(k) ==
    /\ ~pending
    /\ \A i \in 1..Len(out) : out[i].res # "Err"
    /\ k >= 1
    /\ fed + k <= Len(wire)
    /\ src' = src \o SubSeq(wire, fed + 1, fed + k)
    /\ fed' = fed + k
    /\ pending' = TRUE
    /\ UNCHANGED <<item, wire, out>>
    /\ UNCHANGED srvVars

\* Framed calls decode on its buffer: Ok(None) sends it back to reading,
\* Ok(Some(_)) is yielded and decode is called again, Err(_) ends the stream
Decode ==
    /\ pending
    /\ LET r == decode(src)
       IN /\ src' = r.src
          /\ out' = IF r.res = "None" THEN out ELSE Append(out, [res |-> r.res, msg |-> r.msg])
          /\ pending' = (r.res = "Some")
    /\ UNCHANGED <<item, wire, fed>>
    /\ UNCHANGED srvVars

\* a read delivers at least one byte and at most what is left of the stream
ReadSome == \E k \in 1..Len(wire) : Read(k)

CodecNext == ReadSome \/ Decode

CodecSpec == CodecInit /\ [][CodecNext]_vars

\* ================================================================ claims
Last(q) == q[Len(q)]
LastN(q, n) == SubSeq(q, Len(q) - n + 1, Len(q))
Min(a, b) == IF a < b THEN a ELSE b
HasTo(m) == m.type \in {"PrivateMessage", "UserList", "History", "Error"}
\* the step enqueues one reply into c's queue
Enqueued(c) == Len(queue'[c]) = Len(queue[c]) + 1

\* C2: on shutdown every connection of the Directory snapshot has been
\* enqueued exactly one Exit by the time the Directory is cleared, nobody is
\* ever enqueued two, and no entry is cleared without its connection having
\* been enqueued an Exit.
C2_ExitBeforeClear ==
    /\ \A c \in Conns : exitCount[c] <= 1
    /\ mpc \in {"s_clear", "s_sleep", "exited"} => \A c \in shutSet : exitCount[c] = 1
    /\ \A c \in clearedSet : exitCount[c] = 1

\* C3: each history has at most MAX_HISTORY_SIZE lines and holds exactly the
\* most recent min(k, MAX_HISTORY_SIZE) of the k lines appended to it, in order.
C3_BoundedFifo ==
    /\ Len(broadcast_history) <= MAX_HISTORY_SIZE
    /\ broadcast_history = LastN(glog, Min(Len(glog), MAX_HISTORY_SIZE))
    /\ \A n \in Names :
          /\ Len(private_history[n]) <= MAX_HISTORY_SIZE
          /\ private_history[n] = LastN(plog[n], Min(Len(plog[n]), MAX_HISTORY_SIZE))

\* C4: no task is suspended (on a queue send or on anything else) while it
\* holds the shared-state guard.
C4_GuardNotHeldAcrossSuspension == guard = NoConn

\* C6: the Directory maps a name to the connection that registered it last
\* (or to nothing); every reply carrying `to` is enqueued into the queue of
\* the connection that registered that name last, never into an earlier
\* one's; the registration that replaces a handle leaves the replaced
\* connection's tasks and queue as they are.
C6_RoutedToLastRegistered ==
    [][ /\ \A n \in Names : clients'[n] \in {NoConn, lastReg'[n]}
        /\ \A c \in Conns : Enqueued(c) /\ HasTo(Last(queue'[c]))
              => lastReg[Last(queue'[c]).to] = c
        /\ \A n \in Names : lastReg'[n] # lastReg[n] /\ lastReg[n] # NoConn
              => LET d == lastReg[n]
                 IN pc'[d] = pc[d] /\ wpc'[d] = wpc[d] /\ queue'[d] = queue[d]
      ]_vars

\* C6 witness: two live connections registered the same name and a reply
\* routed to that name sits in the second one's queue.
C6_Witness ==
    \E c, d \in Conns :
        /\ c # d /\ name[c] = name[d] /\ name[c] # NoName
        /\ lastReg[name[c]] = d
        /\ pc[c] \notin {"closed", "rejected"}
        /\ queue[d] # <<>> /\ HasTo(Last(queue[d])) /\ Last(queue[d]).to = name[d]

\* the step records the Private intent cur'[c]
RecordsPrivate(c) == pc[c] = "idle" /\ pc'[c] = "d_get"

\* C7 (as claimed): handling Private{from, to, content} leaves
\* "You -> to: content" as the last entry of private_history[from] and
\* "from -> You: content" as the last entry of private_history[to].
C7_BothLinesLast ==
    [][ \A c \in Conns : RecordsPrivate(c) =>
           LET m == cur'[c]
           IN /\ Last(private_history'[m.from]) = YouToLine(m.to, m.content)
              /\ Last(private_history'[m.to]) = ToYouLine(m.from, m.content)
      ]_vars

\* C7 (amended): one step appends both lines whatever the Directory holds;
\* "from -> You: content" is the last entry of private_history[to]; with
\* from # to, "You -> to: content" is the last entry of private_history[from];
\* with from = to it is the entry before the last; no other history changes.
C7_BothLinesAppended ==
    [][ \A c \in Conns : RecordsPrivate(c) =>
           LET m == cur'[c]
               hf == private_history'[m.from]
               ht == private_history'[m.to]
           IN /\ Last(ht) = ToYouLine(m.from, m.content)
              /\ m.from # m.to => Last(hf) = YouToLine(m.to, m.content)
              /\ m.from = m.to => Len(hf) >= 2 /\ hf[Len(hf) - 1] = YouToLine(m.to, m.content)
              /\ \A n \in Names \ {m.from, m.to} : private_history'[n] = private_history[n]
              /\ broadcast_history' = broadcast_history
      ]_vars

\* C7 witness: a Private to a name that never registered has been recorded
\* in both histories.
C7_Witness ==
    \E c \in Conns :
        /\ pc[c] = "d_get"
        /\ cur[c].from # cur[c].to
        /\ lastReg[cur[c].to] = NoConn
        /\ Last(private_history[cur[c].to]) = ToYouLine(cur[c].from, cur[c].content)
        /\ Last(private_history[cur[c].from]) = YouToLine(cur[c].to, cur[c].content)

\* C8: a History reply, at the moment it is enqueued, is the global header,
\* broadcast_history, the private header and private_history[to] as they are
\* then, ends with "You issued: /history", and goes to the queue of the
\* connection registered under `to`.
C8_HistoryReplyIsSnapshot ==
    [][ \A c \in Conns : pc[c] = "c_send" /\ reply[c].type = "History" /\ pc'[c] = "idle" =>
           LET r == reply[c]
               h == clients[r.to]
           IN /\ r.content = HistoryText(broadcast_history, private_history[r.to])
              /\ Last(r.content) = IssuedLine("/history")
              /\ r.to = cur[c].from
              /\ h # NoConn
              /\ wpc[h] # "done" => queue'[h] = Append(queue[h], r)
              /\ \A d \in Conns \ {h} : queue'[d] = queue[d]
      ]_vars

\* C8 witness: a History reply whose text has a broadcast line and the
\* request line is queued.
C8_Witness ==
    \E c \in Conns :
        /\ queue[c] # <<>>
        /\ Last(queue[c]).type = "History"
        /\ Len(Last(queue[c]).content) >= 4
        /\ Last(queue[c]).content[2] \notin {GlobalHeader, PrivateHeader}

\* C10 (as claimed): an intent other than Register arriving on an
\* Unregistered connection changes nothing and leaves the connection
\* Unregistered, still reading frames.
C10_StaysUnregistered ==
    [][ \A c \in Conns : \A m \in ClientMessage : FirstOther(c, m) =>
           /\ pc'[c] = "accepted"
           /\ UNCHANGED <<clients, broadcast_history, private_history, queue>>
      ]_vars

\* C10 (amended): such an intent changes neither Directory nor histories nor
\* any queue, and handle_client returns: the connection is never registered
\* afterwards.
C10_RejectedSilently ==
    [][ \A c \in Conns :
           /\ \A m \in ClientMessage : FirstOther(c, m) =>
                 /\ pc'[c] = "rejected"
                 /\ UNCHANGED <<clients, broadcast_history, private_history, queue>>
           /\ pc[c] = "rejected" =>
                 pc'[c] = "rejected" /\ name'[c] = NoName /\ c \notin Handles(clients')
      ]_vars

\* C10 witness: a connection was rejected while peer events are still to come
\* and another connection is Active.
C10_Witness ==
    \E c, d \in Conns : pc[c] = "rejected" /\ pc[d] = "idle" /\ budget > 0

\* the buffer holds less than a whole frame
Incomplete(s) == Len(s) < 4 \/ Len(s) < 4 + from_be_bytes(s)

\* C9: however encode(item) is cut into pieces, decode yields item once and
\* nothing else, nothing is left in the buffer once every byte was read, and
\* a decode call on less than a whole frame returns Ok(None) and leaves the
\* buffer as it is.
C9_FragmentedRoundTrip ==
    [][ /\ \A i \in 1..Len(out') : out'[i] = [res |-> "Some", msg |-> item]
        /\ Len(out') <= 1
        /\ pending /\ Incomplete(src) => src' = src /\ out' = out /\ ~pending'
        /\ fed' = Len(wire) /\ ~pending' => out' = <<[res |-> "Some", msg |-> item]>> /\ src' = <<>>
        /\ fed' < Len(wire) => out' = <<>>
      ]_vars

\* C9 witness: the frame of a Message with an escaped text arrived in at
\* least two pieces, an incomplete buffer was handed to decode, and the
\* Message came out.
C9_Witness ==
    /\ item.type = "Private" /\ item.content = <<34, 92>>
    /\ fed = Len(wire) /\ ~pending
    /\ out = <<[res |-> "Some", msg |-> item]>>
    /\ src = <<>>

\* C1: a Private whose target is not in the Directory is answered: the
\* handler, having found the target absent, goes on to the Error reply and
\* returns to the read loop (unless the process exits first).
C1_MissHandlerCompletes ==
    \A c \in Conns :
        (pc[c] = "d_else" /\ cur[c].from = name[c] /\ clients[name[c]] = c)
            ~> (pc[c] = "idle" \/ mpc = "exited")

\* task x holds the guard and is suspended on a send into the full queue of
\* connection h, whose Receiver is alive
BlockedOn(x, h) ==
    /\ guard = x
    /\ \/ pc[x] = "d_send" /\ clients[cur[x].to] = h
       \/ pc[x] \in {"d_err", "c_send"} /\ clients[cur[x].from] = h
       \/ pc[x] = "t_fan" /\ Head(snap[x]) = h
    /\ wpc[h] # "done"
    /\ Len(queue[h]) = CHANNEL_CAP

\* connection y is Active, in the Directory under its own name, waiting for
\* its next intent, and its queue has room
Responsive(y) ==
    /\ pc[y] = "idle"
    /\ clients[name[y]] = y
    /\ wpc[y] = "run"
    /\ Len(queue[y]) < CHANNEL_CAP

\* C5: a connection whose queue stays full stalls nobody but those sending
\* to it: while a task is suspended on a send into the full queue of h, no
\* other responsive connection is locked out of its handlers, i.e. the
\* suspended task does not hold the guard that every /users, /history and
\* Private handler has to take first.
C5_SlowPeerStallsNobody ==
    \A x, h, y \in Conns : BlockedOn(x, h) /\ y # x /\ y # h => ~Responsive(y)

\* C11: a Broadcast is recorded and then enqueued into every handle of the
\* snapshot; a target that cannot take the reply (closed or full) is passed
\* over: a fan-out is never held at a full queue while another handle of its
\* snapshot, with room, is still waiting for the reply.
C11_FullTargetHoldsNobody ==
    \A c \in Conns : pc[c] = "b_fan" /\ Len(snap[c]) > 1 =>
        LET h == Head(snap[c])
        IN ~ /\ wpc[h] # "done"
             /\ Len(queue[h]) = CHANNEL_CAP
             /\ \E k \in 2..Len(snap[c]) : CanSend(snap[c][k])

\* C12: the join notice of a registration goes to every handle in the
\* Directory, the registering connection's own handle included, whatever
\* other registrations, disconnects and the shutdown do in between.
C12_JoinReachesOwnHandle ==
    [][ \A c \in Conns : pc[c] = "reg_snap" /\ pc'[c] # "reg_snap" =>
            c \in Range(snap'[c])
      ]_vars

C15_UsersAlwaysAnswered ==
    [][ \A c \in Conns :
            pc[c] = "cu_get" /\ pc'[c] # "cu_get" /\ cur[c].from = name[c] =>
                /\ pc'[c] = "c_send"
                /\ clients[name[c]] = c
      ]_vars

\* C16: a Command that is neither "/users" nor "/history", sent by a
\* connection under its own name, gets one Error{to: from} into that
\* connection's queue and changes neither Directory nor histories.
C16_UnknownCommandAnswered ==
    [][ \A c \in Conns : \A m \in UnknownCommands :
            RecvUnknown(c, m) /\ m.from = name[c] =>
                /\ pc'[c] = "c_send"
                /\ reply'[c] = Error(NoUserOnline, m.from)
                /\ clients[m.from] = c
                /\ UNCHANGED <<clients, broadcast_history, private_history>>
      ]_vars

\* the handle of c is neither in the Directory nor in a cloned map that is
\* still being iterated
Unreachable(c) ==
    /\ c \notin Handles(clients)
    /\ \A d \in Conns : c \notin Range(snap[d])
    /\ c \notin Range(msnap)

C18_TeardownKeepsOthers ==
    [][ \A c \in Conns : pc[c] = "idle" /\ pc'[c] = "t_lock" =>
            \A n \in Names : clients[n] # c => clients'[n] = clients[n]
      ]_vars

\* the task is at a statement that requests the guard
LockRequest(c) ==
    pc[c] \in {"reg_snap", "b_snap", "d_get", "d_else", "cu_snap", "cu_get", "t_lock"}

\* C19: no task requests the guard while it holds it.
C19_NoLockRequestWhileHolding ==
    \A c \in Conns : guard = c => ~LockRequest(c)

\* C20: an intent whose `from` is not the name of the connection it came
\* from neither writes into private_history[from] nor makes the handler send
\* a History, UserList or Error reply to the connection registered as `from`.
C20_FromIsTheSender ==
    [][ \A c \in Conns : \A m \in ClientMessage :
            /\ RecvPrivate(c, m) \/ RecvUsers(c, m) \/ RecvHistory(c, m) \/ RecvUnknown(c, m)
            /\ m.from # name[c]
            => /\ private_history'[m.from] = private_history[m.from]
               /\ pc'[c] # "c_send"
      ]_vars

====
